---- MODULE Spec2Model ----
(***************************************************************************)
(* A state-machine model of src/ctcp.c: the cTCP connection registry      *)
(* (state_list), the per-connection state, and the handlers ctcp_init,    *)
(* ctcp_destroy, ctcp_read, ctcp_receive, ctcp_output and ctcp_timer.     *)
(*                                                                         *)
(* The handlers are called one at a time by the library's event loop, so  *)
(* each handler is one atomic action.  ctcp_timer is the exception: it    *)
(* goes on using a connection it has just freed, and what it reads from   *)
(* freed memory is a choice of its own at every read, so it is modelled   *)
(* as a sequence of steps (tpc, tState, tNode) during which no other      *)
(* handler runs.                                                           *)
(*                                                                         *)
(* Memory: a connection is an address in Conns.  mem[c] says whether the  *)
(* ctcp_state at that address was never allocated, is live, or was        *)
(* freed; st[c] keeps the bytes last written there, also after the free.  *)
(* A read of a pointer out of freed memory yields the stale pointer or    *)
(* NULL (what the allocator left there), or the process crashes; a        *)
(* second free of the same block is either unnoticed or aborts the        *)
(* process (crashed).                                                      *)
(***************************************************************************)
EXTENDS Integers, Sequences, FiniteSets, TLC

VARIABLES
    state_list,   \* src/ctcp.c:47, head of the registry (NULL or a connection)
    mem,          \* allocation status of each ctcp_state block
    st,           \* contents of each ctcp_state block (struct ctcp_state)
    now,          \* current_time_ms()
    source,       \* application byte source read by conn_input
    sink,         \* what conn_output has handed to the application, per connection
    call,         \* the handler invocation in progress or last completed
    events,       \* observable effects of that invocation, in program order
    cause,        \* which code path destroyed each connection
    sent,         \* per connection: data segments sent by ctcp_read so far
    budget,       \* what the environment may still do (bytes to write, segments to deliver)
    tpc, tState, tNode,   \* ctcp_timer's position: state and node loop variables
    littleEndian, \* byte order of the host the program was built for
    crashed       \* the process was aborted (invalid memory access, double free)

vars == <<state_list, mem, st, now, source, sink, call, events, cause, sent, budget,
          tpc, tState, tNode, littleEndian, crashed>>

----------------------------------------------------------------------------
(* Bounds of the model. *)

NumConns == 3      \* addresses available for connections
MaxWin == 2        \* cfg->send_window = cfg->recv_window range over 0..MaxWin segments
MaxRto == 1        \* cfg->rt_timeout ranges over 1..MaxRto
MaxSeq == 8        \* ctcp_read is not called once seqno exceeds this
MaxPeerSegs == 3   \* the peer's stream is cut into this many full segments
MaxAck == 4        \* acknos carried by inbound ACKs range over 2..MaxAck

\* What the environment does in a run of each specification: connections
\* created, bytes the applications write, segments the network delivers to
\* ctcp_receive, milliseconds the clock advances.
DataConns == 1      \* Spec: one connection, every handler, every input
DataInput == 2
DataRecv == 1
DataTicks == 1
RecvSegs == 3       \* SpecRecv: a peer sending data and FIN
AckCount == 2       \* SpecAck: a peer acknowledging, a window of any size
WindowAcks == 1     \* SpecWindow: a window of two segments, three segments of input
TimerConns == 2     \* SpecTimer: retransmission until the retry limit
TimerInput == 2
TimerTicks == 4
RegDestroys == 3    \* SpecRegistry: NumConns connections created and torn down

(* Program constants (ctcp_sys.h / ctcp.h, scaled down). *)
MAX_SEG_DATA_SIZE == 2
MAX_NUM_XMITS == 2
SegHeaderSize == 15     \* sizeof(ctcp_segment_t)

NULL == 0
Conns == 1..NumConns
TH_ACK == "ACK"
TH_FIN == "FIN"

Min(a, b) == IF a < b THEN a ELSE b

----------------------------------------------------------------------------
(* Byte order.  The length field of a segment is 16 bits wide; the code   *)
(* fills it with htonl() (ctcp.c:95,103,144) and reads it with ntohs()    *)
(* (ctcp.c:160,184).                                                       *)

Bswap16(x) == (x % 256) * 256 + ((x \div 256) % 256)

\* ntohs(x) for a 16-bit x
Ntohs(x) == IF littleEndian THEN Bswap16(x) ELSE x

\* (uint16_t) htonl(x): the low 16 bits of the 32-bit value in network order;
\* on a little-endian host these are the swapped high 16 bits of x
LenField(x) == IF littleEndian THEN Bswap16((x \div 65536) % 65536) ELSE x % 65536

----------------------------------------------------------------------------
(* Values. *)

NoSeg == [seqno |-> 0, ackno |-> 0, flags |-> {}, len |-> 0, cksum_ok |-> TRUE]

\* call when no handler is running or has just returned
NoCall == [op |-> "none", conn |-> NULL, seg |-> NoSeg]

\* calloc(1, sizeof(ctcp_state_t)): a zeroed struct ctcp_state
ZeroState ==
    [next |-> NULL, prev |-> NULL, segments |-> <<>>,
     seqno |-> 0, ackno |-> 0, send_base |-> 0, recv_base |-> 0,
     send_window |-> 0, recv_window |-> 0,
     rt_timeout |-> 0, retransmit_count |-> 0, last_sent_time |-> 0]

\* ctcp_config_t values handed to ctcp_init
Configs ==
    {cfg \in [send_window : 0..MaxWin, recv_window : 0..MaxWin, rt_timeout : 1..MaxRto] :
        cfg.send_window = cfg.recv_window}

Idle == tpc = "idle" /\ ~crashed

\* The registry and the heap as one value, for the operators below.
Heap == [state_list |-> state_list, mem |-> mem, st |-> st]

----------------------------------------------------------------------------
InitWith(b, hosts) ==
    /\ state_list = NULL
    /\ mem = [c \in Conns |-> "none"]
    /\ st = [c \in Conns |-> ZeroState]
    /\ now = MaxRto + 1
    /\ source = [c \in Conns |-> [avail |-> 0, eof |-> FALSE]]
    /\ sink = [c \in Conns |-> <<>>]
    /\ call = NoCall
    /\ events = <<>>
    /\ cause = [c \in Conns |-> "none"]
    /\ sent = [c \in Conns |-> [data |-> 0, allFull |-> TRUE]]
    /\ budget = b
    /\ tpc = "idle" /\ tState = NULL /\ tNode = 0
    /\ littleEndian \in hosts
    /\ crashed = FALSE

Init ==
    InitWith([conns |-> DataConns, input |-> DataInput, recv |-> DataRecv,
              ticks |-> DataTicks, destroys |-> 0], BOOLEAN)

----------------------------------------------------------------------------
(* ctcp_init, src/ctcp.c:50-73 *)

\* lines 53-70 on a fresh block c: the initialised struct linked in at the head
InitState(H, c, cfg) ==
    LET s == [ZeroState EXCEPT
                !.send_window = cfg.send_window * MAX_SEG_DATA_SIZE,
                !.recv_window = cfg.recv_window * MAX_SEG_DATA_SIZE,
                !.rt_timeout = cfg.rt_timeout,
                !.seqno = 1, !.ackno = 0, !.send_base = 1, !.recv_base = 1,
                !.segments = <<>>,
                !.next = H.state_list,
                !.prev = NULL]                 \* &state_list
        st1 == [H.st EXCEPT ![c] = s]
        st2 == IF H.state_list # NULL
                 THEN [st1 EXCEPT ![H.state_list].prev = c]   \* &state->next
                 ELSE st1
    IN [state_list |-> c, mem |-> [H.mem EXCEPT ![c] = "live"], st |-> st2]

\* calloc hands out the lowest address not yet used
FreshConn(c) == mem[c] = "none" /\ \A d \in Conns : d < c => mem[d] # "none"

ctcp_init(c, cfg) ==
    /\ Idle
    /\ FreshConn(c)
    /\ budget.conns > 0
    /\ budget' = [budget EXCEPT !.conns = @ - 1]
    /\ LET H == InitState(Heap, c, cfg) IN
         /\ state_list' = H.state_list
         /\ mem' = H.mem
         /\ st' = H.st
    /\ call' = [op |-> "ctcp_init", conn |-> c, seg |-> NoSeg]
    /\ events' = <<>>
    /\ UNCHANGED <<now, source, sink, cause, sent, tpc, tState, tNode,
                   littleEndian, crashed>>

\* line 51: a NULL conn is refused and nothing is created
ctcp_init_null ==
    /\ Idle
    /\ call' = [op |-> "ctcp_init", conn |-> NULL, seg |-> NoSeg]
    /\ events' = <<>>
    /\ UNCHANGED <<state_list, mem, st, now, source, sink, cause, sent, budget,
                   tpc, tState, tNode, littleEndian, crashed>>

----------------------------------------------------------------------------
(* ctcp_destroy, src/ctcp.c:76-83 *)

\* *state->prev = v, where prev is &state_list (NULL here) or &p->next
StorePrev(H, prv, v) ==
    IF prv = NULL THEN [H EXCEPT !.state_list = v]
                  ELSE [H EXCEPT !.st[prv].next = v]

\* an unlink that forgets line 77: the successor's prev is left as it was
Unlink_NoPrevFix(H, c, nxt, prv) ==
    [StorePrev(H, prv, nxt) EXCEPT !.mem[c] = "freed"]

\* lines 77-82, with nxt and prv the values read from state->next, state->prev
Unlink(H, c, nxt, prv) ==
    LET H1 == IF nxt # NULL THEN [H EXCEPT !.st[nxt].prev = prv] ELSE H
        H2 == StorePrev(H1, prv, nxt)
    IN [H2 EXCEPT !.mem[c] = "freed"]

\* ctcp_destroy of a live connection
Destroy(H, c) == Unlink(H, c, H.st[c].next, H.st[c].prev)

\* What reading a pointer field of a freed block can give: the stale value,
\* or NULL where the allocator cleared it.
FreedPtr(stale) == {stale, NULL}

ctcp_destroy(c) ==
    /\ Idle
    /\ mem[c] # "none"
    /\ budget.destroys > 0
    /\ budget' = [budget EXCEPT !.destroys = @ - 1]
    /\ call' = [op |-> "ctcp_destroy", conn |-> c, seg |-> NoSeg]
    /\ \/ /\ mem[c] = "live"
          /\ LET H == Destroy(Heap, c) IN
               /\ state_list' = H.state_list /\ mem' = H.mem /\ st' = H.st
          /\ cause' = [cause EXCEPT ![c] = "destroy"]
          /\ events' = <<[ev |-> "destroy", conn |-> c]>>
          /\ UNCHANGED crashed
       \/ \* the block was freed before: lines 77-78 run on freed memory and
          \* lines 81-82 free the list and the block a second time
          /\ mem[c] = "freed"
          /\ \E nxt \in FreedPtr(st[c].next) :
               LET H == Unlink(Heap, c, nxt, st[c].prev) IN
                 /\ state_list' = H.state_list /\ mem' = H.mem /\ st' = H.st
          /\ events' = <<[ev |-> "destroy", conn |-> c]>>
          /\ UNCHANGED <<cause, crashed>>
       \/ /\ mem[c] = "freed"
          /\ crashed' = TRUE
          /\ events' = <<[ev |-> "abort", conn |-> c]>>
          /\ UNCHANGED <<state_list, mem, st, cause>>
    /\ UNCHANGED <<now, source, sink, sent, tpc, tState, tNode, littleEndian>>

----------------------------------------------------------------------------
(* The environment: the clock and the application writing to the source *)

\* Only the age of an in-flight segment is ever looked at (ctcp.c:183), so the
\* clock is advanced only while some connection has one.
Tick ==
    /\ Idle
    /\ budget.ticks > 0
    /\ \E c \in Conns : mem[c] = "live" /\ st[c].segments # <<>>
    /\ now' = now + 1
    /\ budget' = [budget EXCEPT !.ticks = @ - 1]
    /\ call' = NoCall /\ events' = <<>>
    /\ UNCHANGED <<state_list, mem, st, source, sink, cause, sent,
                   tpc, tState, tNode, littleEndian, crashed>>

\* The application writes n more bytes to connection c's source.
AppWrite(c, n) ==
    /\ Idle
    /\ mem[c] = "live"
    /\ ~source[c].eof
    /\ n <= budget.input
    /\ source' = [source EXCEPT ![c].avail = @ + n]
    /\ budget' = [budget EXCEPT !.input = @ - n]
    /\ call' = NoCall /\ events' = <<>>
    /\ UNCHANGED <<state_list, mem, st, now, sink, cause, sent,
                   tpc, tState, tNode, littleEndian, crashed>>

\* The application closes its source: end of input once the bytes are read.
AppClose(c) ==
    /\ Idle
    /\ mem[c] = "live"
    /\ ~source[c].eof
    /\ source' = [source EXCEPT ![c].eof = TRUE]
    /\ call' = NoCall /\ events' = <<>>
    /\ UNCHANGED <<state_list, mem, st, now, sink, cause, sent, budget,
                   tpc, tState, tNode, littleEndian, crashed>>

----------------------------------------------------------------------------
(* ctcp_read, src/ctcp.c:85-112 *)

\* conn_input(conn, buffer, sizeof(buffer)): the bytes read, 0 when none are
\* ready, -1 at end of input
ConnInput(src) ==
    IF src.avail > 0 THEN Min(src.avail, MAX_SEG_DATA_SIZE)
    ELSE IF src.eof THEN -1
    ELSE 0

\* a loop condition that is off by one: it also admits seqno at the window's edge
WindowOpen_Inclusive(s) == s.seqno <= s.send_base + s.send_window

\* line 87
WindowOpen(s) == s.seqno < s.send_base + s.send_window

\* lines 101-103: the segment built for bytes_read bytes at seqno.  sent_at and
\* xmits are history, not fields of ctcp_segment_t: when this very segment was
\* last handed to conn_send (line 106 or 184), and how often line 184 did it.
DataSegment(seqno, bytes_read) ==
    [seqno |-> seqno, dlen |-> bytes_read,
     len |-> LenField(SegHeaderSize + bytes_read),
     sent_at |-> now, xmits |-> 0]

\* The loop of lines 87-111 from state s with source src; r collects the
\* events and the count of data segments.
RECURSIVE ReadLoop(_, _, _)
ReadLoop(s, src, r) ==
    IF ~WindowOpen(s) THEN [s |-> s, src |-> src, r |-> r]
    ELSE LET bytes_read == ConnInput(src) IN
      IF bytes_read = 0 THEN [s |-> s, src |-> src, r |-> r]
      ELSE IF bytes_read = -1
        THEN [s |-> [s EXCEPT !.seqno = @ + 1],
              src |-> src,
              r |-> [r EXCEPT !.ev = Append(@,
                       [ev |-> "conn_send", flags |-> {TH_FIN}, seqno |-> s.seqno,
                        ackno |-> 0, dlen |-> 0,
                        lenfield |-> LenField(SegHeaderSize),
                        size |-> SegHeaderSize, rexmit |-> FALSE])]]
        ELSE ReadLoop(
              [s EXCEPT !.segments = Append(@, DataSegment(s.seqno, bytes_read)),
                        !.seqno = @ + bytes_read,
                        !.last_sent_time = now],
              [src EXCEPT !.avail = @ - bytes_read],
              [r EXCEPT !.ev = Append(@,
                       [ev |-> "conn_send", flags |-> {}, seqno |-> s.seqno,
                        ackno |-> 0, dlen |-> bytes_read,
                        lenfield |-> LenField(SegHeaderSize + bytes_read),
                        size |-> SegHeaderSize + bytes_read, rexmit |-> FALSE]),
                      !.data = @ + 1,
                      !.allFull = @ /\ bytes_read = MAX_SEG_DATA_SIZE])

ctcp_read(c) ==
    /\ Idle
    /\ mem[c] = "live"
    /\ st[c].seqno <= MaxSeq
    /\ LET res == ReadLoop(st[c], source[c],
                           [ev |-> <<>>, data |-> sent[c].data,
                            allFull |-> sent[c].allFull]) IN
         /\ st' = [st EXCEPT ![c] = res.s]
         /\ source' = [source EXCEPT ![c] = res.src]
         /\ events' = res.r.ev
         /\ sent' = [sent EXCEPT ![c] = [data |-> res.r.data, allFull |-> res.r.allFull]]
    /\ call' = [op |-> "ctcp_read", conn |-> c, seg |-> NoSeg]
    /\ UNCHANGED <<state_list, mem, now, sink, cause, budget,
                   tpc, tState, tNode, littleEndian, crashed>>

----------------------------------------------------------------------------
(* ctcp_receive, src/ctcp.c:114-154 *)

\* The peer cuts its stream into full segments starting at sequence number 1.
PeerSeqnos == {1 + k * MAX_SEG_DATA_SIZE : k \in 0..(MaxPeerSegs - 1)}

\* Segments the network can hand to ctcp_receive, as (segment, len): the header
\* fields in host order, the received length, and whether the stored checksum
\* matches the bytes.
Segment(seqno, ackno, flags, len) ==
    [seqno |-> seqno, ackno |-> ackno, flags |-> flags, len |-> len, cksum_ok |-> TRUE]

DataSegs == {Segment(q, 0, {}, SegHeaderSize + MAX_SEG_DATA_SIZE) : q \in PeerSeqnos}

AckSegs == {Segment(1, a, {TH_ACK}, SegHeaderSize) : a \in 2..MaxAck}

AckDataSegs ==
    {Segment(q, a, {TH_ACK}, SegHeaderSize + MAX_SEG_DATA_SIZE) :
        q \in PeerSeqnos, a \in 2..MaxAck}

FinSegs == {Segment(q, 0, {TH_FIN}, SegHeaderSize) : q \in PeerSeqnos}

\* A segment damaged on the way: its checksum no longer matches, or it was cut
\* to less than a header.
Corrupted(g) == [g EXCEPT !.cksum_ok = FALSE]
Truncated(g) == [g EXCEPT !.len = SegHeaderSize - 1, !.cksum_ok = FALSE]

Inbound ==
    DataSegs \cup AckSegs \cup AckDataSegs \cup FinSegs
    \cup {Corrupted(g) : g \in DataSegs \cup AckSegs \cup FinSegs}
    \cup {Truncated(g) : g \in AckSegs \cup FinSegs}

\* The receiver's codec accepts g: a whole header whose checksum matches.
WellFormed(g) == g.len >= SegHeaderSize /\ g.cksum_ok

\* lines 124-132: segments popped off the front while their seqno is below ackno
RECURSIVE PruneAcked(_, _)
PruneAcked(segs, ackno) ==
    IF segs # <<>> /\ Head(segs).seqno < ackno
      THEN PruneAcked(Tail(segs), ackno)
      ELSE segs

\* lines 118-134
AckAdvances(s, g) == TH_ACK \in g.flags /\ g.ackno > s.send_base

ProcessAck(s, g) ==
    IF AckAdvances(s, g)
      THEN [s EXCEPT !.send_base = g.ackno,
                     !.segments = PruneAcked(@, g.ackno)]
      ELSE s

AckEvents(s, g) ==
    IF AckAdvances(s, g)
      THEN <<[ev |-> "send_base", value |-> g.ackno],
             [ev |-> "prune", removed |-> Len(s.segments) - Len(PruneAcked(s.segments, g.ackno))]>>
      ELSE <<>>

\* line 136
HasPayload(g) == g.len > SegHeaderSize

\* lines 137-145: the payload goes to the sink and an ACK goes out
PayloadSink(g) ==
    IF HasPayload(g)
      THEN <<[kind |-> "data", seqno |-> g.seqno, dlen |-> g.len - SegHeaderSize]>>
      ELSE <<>>

PayloadEvents(g) ==
    IF HasPayload(g)
      THEN <<[ev |-> "conn_output", seqno |-> g.seqno, dlen |-> g.len - SegHeaderSize,
              from |-> "network"],
             [ev |-> "conn_send", flags |-> {TH_ACK}, seqno |-> 0,
              ackno |-> g.seqno + (g.len - SegHeaderSize), dlen |-> 0,
              lenfield |-> LenField(SegHeaderSize), size |-> SegHeaderSize,
              window |-> 0,          \* line 141: ack_segment = {0}, window never set
              rexmit |-> FALSE]>>
      ELSE <<>>

\* lines 148-151
FinSink(g) == IF TH_FIN \in g.flags THEN <<[kind |-> "eof", seqno |-> 0, dlen |-> 0]>> ELSE <<>>

FinEvents(c, g) ==
    IF TH_FIN \in g.flags
      THEN <<[ev |-> "conn_output", seqno |-> 0, dlen |-> 0, from |-> "eof"],
             [ev |-> "destroy", conn |-> c]>>
      ELSE <<>>

\* a FIN handler that signals end-of-input but leaves the connection in place
AfterFin_NoDestroy(H, c, g) == H

\* lines 148-151 on the heap: a FIN destroys the connection
AfterFin(H, c, g) == IF TH_FIN \in g.flags THEN Destroy(H, c) ELSE H

\* a handler that delivers the payload and replies before it processes the ACK
ReceiveEvents_PayloadFirst(c, s, g) ==
    PayloadEvents(g) \o AckEvents(s, g) \o FinEvents(c, g)

\* what ctcp_receive does from state s, in program order: lines 118-134, then
\* lines 136-146, then lines 148-151
ReceiveEvents(c, s, g) ==
    AckEvents(s, g) \o PayloadEvents(g) \o FinEvents(c, g)

ctcp_receive(c, g) ==
    /\ Idle
    /\ mem[c] = "live"
    /\ budget.recv > 0
    /\ budget' = [budget EXCEPT !.recv = @ - 1]
    /\ LET H1 == [Heap EXCEPT !.st[c] = ProcessAck(st[c], g)]
           H2 == AfterFin(H1, c, g)
       IN /\ state_list' = H2.state_list /\ mem' = H2.mem /\ st' = H2.st
    /\ sink' = [sink EXCEPT ![c] = @ \o PayloadSink(g) \o FinSink(g)]
    /\ events' = ReceiveEvents(c, st[c], g)
    /\ cause' = IF AfterFin(Heap, c, g).mem[c] = "freed"
                 THEN [cause EXCEPT ![c] = "fin"] ELSE cause
    /\ call' = [op |-> "ctcp_receive", conn |-> c, seg |-> g]
    /\ UNCHANGED <<now, source, sent, tpc, tState, tNode, littleEndian, crashed>>

----------------------------------------------------------------------------
(* ctcp_output, src/ctcp.c:156-172 *)

\* line 160: size_t data_len = ntohs(segment->len) - sizeof(ctcp_segment_t).
\* A negative value here stands for the wrapped unsigned one.
OutputDataLen(seg) == Ntohs(seg.len) - SegHeaderSize

\* The loop of lines 157-171: segments at the front of state->segments whose
\* seqno is recv_base are handed to conn_output and removed.
RECURSIVE OutputLoop(_, _)
OutputLoop(s, out) ==
    IF s.segments # <<>> /\ Head(s.segments).seqno = s.recv_base
      THEN LET seg == Head(s.segments)
               data_len == OutputDataLen(seg)
           IN OutputLoop([s EXCEPT !.recv_base = @ + data_len,
                                   !.segments = Tail(@)],
                         Append(out, [seqno |-> seg.seqno, dlen |-> data_len]))
      ELSE [s |-> s, out |-> out]

ctcp_output(c) ==
    /\ Idle
    /\ mem[c] = "live"
    /\ LET res == OutputLoop(st[c], <<>>) IN
         /\ st' = [st EXCEPT ![c] = res.s]
         /\ sink' = [sink EXCEPT ![c] = @ \o
                [i \in 1..Len(res.out) |->
                   [kind |-> "data", seqno |-> res.out[i].seqno, dlen |-> res.out[i].dlen]]]
         /\ events' = [i \in 1..Len(res.out) |->
                   [ev |-> "conn_output", seqno |-> res.out[i].seqno,
                    dlen |-> res.out[i].dlen, from |-> "segments"]]
    /\ call' = [op |-> "ctcp_output", conn |-> c, seg |-> NoSeg]
    /\ UNCHANGED <<state_list, mem, now, source, cause, sent, budget,
                   tpc, tState, tNode, littleEndian, crashed>>

----------------------------------------------------------------------------
(* ctcp_timer, src/ctcp.c:175-196, one step per loop test.  tState is the   *)
(* variable state, tNode the position of node in state->segments (0: NULL). *)

\* line 176
TimerBegin ==
    /\ Idle
    /\ tpc' = "state" /\ tState' = state_list /\ tNode' = 0
    /\ call' = [op |-> "ctcp_timer", conn |-> NULL, seg |-> NoSeg]
    /\ events' = <<>>
    /\ UNCHANGED <<state_list, mem, st, now, source, sink, cause, sent, budget,
                   littleEndian, crashed>>

\* node after "node = state->segments->head" or "node = node->next" took it to
\* position i of a list of n nodes
NodeAt(i, n) == IF 1 <= i /\ i <= n THEN i ELSE 0

\* The values a read of a node pointer can give: the pointer itself while the
\* list is allocated, and after ll_destroy the stale pointer or NULL.
NodePtr(c, i) ==
    IF mem[c] = "live" THEN {NodeAt(i, Len(st[c].segments))}
    ELSE {NodeAt(i, Len(st[c].segments)), 0}

\* lines 178-179: the outer loop test and node = state->segments->head
TimerState ==
    /\ tpc = "state" /\ ~crashed
    /\ IF tState = NULL
         THEN tpc' = "idle" /\ UNCHANGED <<tState, tNode>>
         ELSE /\ tpc' = "node"
              /\ tNode' \in NodePtr(tState, 1)
              /\ UNCHANGED tState
    /\ UNCHANGED <<state_list, mem, st, now, source, sink, call, events, cause, sent,
                   budget, littleEndian, crashed>>

\* line 183
Due(s) == now - s.last_sent_time > s.rt_timeout

\* lines 184-186 on state s
Retransmit(s) ==
    [s EXCEPT !.retransmit_count = @ + 1, !.last_sent_time = now]

\* line 184 in the history of the segment at node i
Stamp(s, i) ==
    [s EXCEPT !.segments[i].sent_at = now, !.segments[i].xmits = @ + 1]

RetransmitEvent(seg) ==
    [ev |-> "conn_send", flags |-> {}, seqno |-> seg.seqno, ackno |-> 0,
     dlen |-> seg.dlen, lenfield |-> seg.len, size |-> Ntohs(seg.len),
     rexmit |-> TRUE]

\* line 188
Exhausted(s) == s.retransmit_count >= MAX_NUM_XMITS

\* lines 181-192 for the node at tNode, then line 180's test; with node NULL,
\* line 194 and back to line 178
TimerNode ==
    /\ tpc = "node" /\ ~crashed
    /\ IF tNode = 0
         THEN /\ tpc' = "state"
              /\ tState' \in (IF mem[tState] = "live" THEN {st[tState].next}
                                                     ELSE FreedPtr(st[tState].next))
              /\ UNCHANGED <<tNode, state_list, mem, st, events, cause>>
         ELSE LET c == tState
                  seg == st[c].segments[tNode]
                  due == Due(st[c])
                  s1 == IF due THEN Stamp(Retransmit(st[c]), tNode) ELSE st[c]
                  H1 == [Heap EXCEPT !.st[c] = s1]
                  kill == due /\ Exhausted(s1)
                  H2 == IF kill THEN Unlink(H1, c, s1.next, s1.prev) ELSE H1
              IN /\ state_list' = H2.state_list /\ mem' = H2.mem /\ st' = H2.st
                 /\ events' = events
                       \o (IF due THEN <<RetransmitEvent(seg)>> ELSE <<>>)
                       \o (IF kill THEN <<[ev |-> "destroy", conn |-> c]>> ELSE <<>>)
                 /\ cause' = IF kill /\ mem[c] = "live"
                               THEN [cause EXCEPT ![c] = "timer"] ELSE cause
                 /\ tNode' \in (IF H2.mem[c] = "live"
                                  THEN {NodeAt(tNode + 1, Len(s1.segments))}
                                  ELSE {NodeAt(tNode + 1, Len(s1.segments)), 0})
                 /\ UNCHANGED <<tpc, tState>>
    /\ UNCHANGED <<now, source, sink, call, sent, budget, littleEndian, crashed>>

\* ctcp_timer is working on a state it has freed (line 189): any of its next
\* accesses (lines 179-194) may fault, and a second ctcp_destroy frees twice.
TimerCrash ==
    /\ tpc # "idle" /\ ~crashed
    /\ tState # NULL /\ mem[tState] = "freed"
    /\ crashed' = TRUE
    /\ events' = Append(events, [ev |-> "abort", conn |-> tState])
    /\ UNCHANGED <<state_list, mem, st, now, source, sink, call, cause, sent, budget,
                   tpc, tState, tNode, littleEndian>>

ctcp_timer == TimerBegin \/ TimerState \/ TimerNode \/ TimerCrash

----------------------------------------------------------------------------
(* Specifications.  The library's event loop calls ctcp_init, ctcp_read,   *)
(* ctcp_receive, ctcp_output and ctcp_timer; ctcp_destroy is called by     *)
(* ctcp_receive and ctcp_timer, and from outside only as the explicit      *)
(* teardown of SpecRegistry.  Spec is the data path: one connection, every *)
(* inbound segment; the others are the scenarios their names say.          *)

Environment ==
    \/ Tick
    \/ \E c \in Conns, n \in 1..budget.input : AppWrite(c, n)
    \/ \E c \in Conns : AppClose(c)

Handlers(cfgs, segs) ==
    \/ \E c \in Conns, cfg \in cfgs : ctcp_init(c, cfg)
    \/ ctcp_init_null
    \/ \E c \in Conns : ctcp_read(c)
    \/ \E c \in Conns, g \in segs : ctcp_receive(c, g)
    \/ \E c \in Conns : ctcp_output(c)

Next == Environment \/ Handlers(Configs, Inbound)

Spec == Init /\ [][Next]_vars

\* A peer that sends data and FIN, in any order and any number of times.
InitRecv ==
    InitWith([conns |-> DataConns, input |-> 0, recv |-> RecvSegs,
              ticks |-> 0, destroys |-> 0], {TRUE})

NextRecv ==
    \/ \E c \in Conns, cfg \in Configs : ctcp_init(c, cfg)
    \/ \E c \in Conns, g \in DataSegs \cup FinSegs : ctcp_receive(c, g)
    \/ \E c \in Conns : ctcp_output(c)

SpecRecv == InitRecv /\ [][NextRecv]_vars

\* A peer that only acknowledges, with any ackno.
InitAck ==
    InitWith([conns |-> DataConns, input |-> DataInput + 1, recv |-> AckCount,
              ticks |-> DataTicks, destroys |-> 0], BOOLEAN)

NextAck == Environment \/ Handlers(Configs, AckSegs)

SpecAck == InitAck /\ [][NextAck]_vars

\* send_window = 2 segments, three full segments of application input, and a
\* peer that acknowledges only bytes that were sent to it.
WindowConfigs == {cfg \in Configs : cfg.send_window = 2}

SentAcks(c) == {g \in AckSegs : g.ackno <= st[c].seqno}

InitWindow ==
    InitWith([conns |-> DataConns, input |-> 3 * MAX_SEG_DATA_SIZE,
              recv |-> WindowAcks, ticks |-> 0, destroys |-> 0], BOOLEAN)

NextWindow ==
    \/ \E c \in Conns : AppWrite(c, 3 * MAX_SEG_DATA_SIZE)
    \/ \E c \in Conns : AppClose(c)
    \/ \E c \in Conns, cfg \in WindowConfigs : ctcp_init(c, cfg)
    \/ \E c \in Conns : ctcp_read(c)
    \/ \E c \in Conns : \E g \in SentAcks(c) : ctcp_receive(c, g)
    \/ \E c \in Conns : ctcp_output(c)

SpecWindow == InitWindow /\ [][NextWindow]_vars

\* A peer whose data segments carry acknowledgements, with any ackno.
InitPiggyback ==
    InitWith([conns |-> DataConns, input |-> DataInput, recv |-> DataRecv,
              ticks |-> 0, destroys |-> 0], {TRUE})

NextPiggyback ==
    \/ \E c \in Conns, cfg \in WindowConfigs : ctcp_init(c, cfg)
    \/ \E c \in Conns, n \in 1..budget.input : AppWrite(c, n)
    \/ \E c \in Conns : ctcp_read(c)
    \/ \E c \in Conns, g \in AckDataSegs : ctcp_receive(c, g)

SpecPiggyback == InitPiggyback /\ [][NextPiggyback]_vars

\* The sender under retransmission: time passes until segments are
\* retransmitted MAX_NUM_XMITS times, while the peer acknowledges or is silent.
FullWindow == {cfg \in Configs : cfg.send_window = MaxWin}

InitTimer ==
    InitWith([conns |-> TimerConns, input |-> TimerInput, recv |-> DataRecv,
              ticks |-> TimerTicks, destroys |-> 0], {TRUE})

NextTimer ==
    \/ Tick
    \/ \E c \in Conns, n \in 1..budget.input : AppWrite(c, n)
    \/ \E c \in Conns, cfg \in FullWindow : ctcp_init(c, cfg)
    \/ \E c \in Conns : ctcp_read(c)
    \/ \E c \in Conns, g \in AckSegs : ctcp_receive(c, g)
    \/ ctcp_timer

SpecTimer == InitTimer /\ [][NextTimer]_vars

\* The registry: connections created and destroyed in any order, ctcp_destroy
\* also called on a connection that was destroyed before.
InitRegistry ==
    InitWith([conns |-> NumConns, input |-> 0, recv |-> 0, ticks |-> 0,
              destroys |-> RegDestroys], {TRUE})

NextRegistry ==
    \/ \E c \in Conns, cfg \in Configs : ctcp_init(c, cfg)
    \/ \E c \in Conns : ctcp_destroy(c)

SpecRegistry == InitRegistry /\ [][NextRegistry]_vars

\* The same, with every connection torn down at most once.
InitTeardown ==
    InitWith([conns |-> NumConns, input |-> 0, recv |-> 0, ticks |-> 0,
              destroys |-> RegDestroys], {TRUE})

NextTeardown ==
    \/ \E c \in Conns, cfg \in Configs : ctcp_init(c, cfg)
    \/ \E c \in Conns : mem[c] = "live" /\ ctcp_destroy(c)

SpecTeardown == InitTeardown /\ [][NextTeardown]_vars

----------------------------------------------------------------------------
(* Properties *)

Live(c) == mem[c] = "live"

\* the payload deliveries among the sink's entries, in order
SinkData(c) == SelectSeq(sink[c], LAMBDA e : e.kind = "data")

\* the number of end-of-input signals the sink has received
EofCount(q) == Cardinality({i \in DOMAIN q : q[i].kind = "eof"})

\* every delivery starts at the byte after the previous one, the first at next
RECURSIVE Contiguous(_, _)
Contiguous(q, next) ==
    \/ q = <<>>
    \/ Head(q).seqno = next /\ Contiguous(Tail(q), next + Head(q).dlen)

\* the step just taken is a call of handler op on connection c
Called(op, c) == call'.op = op /\ call'.conn = c

(* C1: whatever the order and the repetition in which the segments of the   *)
(* peer's stream reach ctcp_receive, the sink receives the stream's bytes   *)
(* in order from the first one, with no gap and no byte twice: a segment    *)
(* ahead of the next expected byte is held back, one behind it is dropped.  *)
C1_InOrderDelivery == \A c \in Conns : Contiguous(SinkData(c), 1)

(* C2: send_base <= next_seqno <= send_base + send_window_bytes holds for   *)
(* every live connection in every reachable state, whatever was read from   *)
(* the application and whatever ackno the inbound ACKs carried.             *)
C2_SendWindow ==
    \A c \in Conns : Live(c) =>
        /\ st[c].send_base <= st[c].seqno
        /\ st[c].seqno <= st[c].send_base + st[c].send_window

(* C3: send_base never decreases, and right after ctcp_receive has          *)
(* processed an ACK every segment still in the retransmission queue ends    *)
(* beyond that ACK's ackno: seqno + payload length > ackno.                 *)
C3_AfterAck ==
    \A c \in Conns :
        (Live(c) /\ call.op = "ctcp_receive" /\ call.conn = c
                 /\ TH_ACK \in call.seg.flags) =>
            \A i \in DOMAIN st[c].segments :
                st[c].segments[i].seqno + st[c].segments[i].dlen > call.seg.ackno

C3_SendBaseStep ==
    \A c \in Conns : (Live(c) /\ mem'[c] = "live") =>
        st'[c].send_base >= st[c].send_base

C3_AckMonotonePrune == []C3_AfterAck /\ [][C3_SendBaseStep]_vars

(* C4: a connection that ctcp_timer destroyed because the retry limit was   *)
(* reached has given its sink exactly one end-of-input signal.              *)
C4_RetryExhaustionEof ==
    \A c \in Conns : cause[c] = "timer" => EofCount(sink[c]) = 1

(* C5: when ctcp_receive is given a FIN whose seqno is the next expected    *)
(* one, the sink has received exactly one end-of-input signal when the call *)
(* returns, and at no later time does the sink hold a second signal or a    *)
(* payload delivered after it.                                              *)
C5_FinStep ==
    \A c \in Conns :
        (Called("ctcp_receive", c) /\ Live(c) /\ TH_FIN \in call'.seg.flags
            /\ call'.seg.seqno = st[c].recv_base) =>
                EofCount(sink'[c]) = 1

C5_EofIsLast ==
    \A c \in Conns : EofCount(sink[c]) > 0 =>
        /\ EofCount(sink[c]) = 1
        /\ sink[c][Len(sink[c])].kind = "eof"

C5_FinInOrder == []C5_EofIsLast /\ [][C5_FinStep]_vars

\* an in-order FIN has arrived after a payload delivery
C5_Witness ==
    \E c \in Conns :
        /\ call.op = "ctcp_receive" /\ call.conn = c
        /\ TH_FIN \in call.seg.flags /\ call.seg.seqno = st[c].recv_base
        /\ Len(sink[c]) >= 2 /\ sink[c][1].kind = "data"
        /\ cause[c] = "fin"

(* C6: with send_window = 2 segments and three full segments in the source, *)
(* the first ctcp_read sends exactly two data segments and stops; a third   *)
(* full data segment is sent only after an ACK advanced send_base.          *)
\* the first part, as a step: a first ctcp_read with three full segments ready
C6_FirstRead ==
    \A c \in Conns :
        (Called("ctcp_read", c) /\ Live(c)
            /\ st[c].send_window = 2 * MAX_SEG_DATA_SIZE
            /\ st[c].seqno = 1 /\ st[c].send_base = 1
            /\ source[c].avail >= 3 * MAX_SEG_DATA_SIZE) =>
                /\ sent'[c].data = 2
                /\ Len(events') = 2
                /\ st'[c].seqno = 1 + 2 * MAX_SEG_DATA_SIZE
                /\ source'[c].avail = source[c].avail - 2 * MAX_SEG_DATA_SIZE

\* three full data segments were sent on a window of two
ThirdSent(c) ==
    /\ st[c].send_window = 2 * MAX_SEG_DATA_SIZE
    /\ sent[c].allFull /\ sent[c].data >= 3

\* the claim as made: send_base is then past the first segment
C6_ThirdPastFirst ==
    \A c \in Conns : (Live(c) /\ ThirdSent(c)) =>
        st[c].send_base >= 1 + MAX_SEG_DATA_SIZE

C6_ThirdAfterAdvance ==
    \A c \in Conns : (Live(c) /\ ThirdSent(c)) => st[c].send_base > 1

C7_Step ==
    \A c \in Conns :
        (Called("ctcp_receive", c) /\ ~WellFormed(call'.seg)) =>
            /\ st' = st /\ mem' = mem /\ state_list' = state_list
            /\ sink' = sink
            /\ events' = <<>>

C7_MalformedDropped == [][C7_Step]_vars

(* C8: a second ctcp_destroy of a connection already destroyed changes      *)
(* nothing, neither the registry nor any connection, and is not an error.   *)
C8_Step ==
    \A c \in Conns :
        (Called("ctcp_destroy", c) /\ mem[c] = "freed") =>
            /\ st' = st /\ mem' = mem /\ state_list' = state_list
            /\ ~crashed'

C8_DestroyIdempotent == [][C8_Step]_vars

(* C9: no live connection has a send window or a receive window of zero     *)
(* bytes: ctcp_init refuses such a configuration.                           *)
C9_NoZeroWindow ==
    \A c \in Conns : Live(c) =>
        st[c].send_window > 0 /\ st[c].recv_window > 0

(* C10: a segment leaves the retransmission queue of a connection that      *)
(* stays alive only in a ctcp_receive call, which processes an ACK; no      *)
(* other handler takes a segment off the queue or hands a queued segment's  *)
(* payload to the local sink.                                               *)
C10_Step ==
    \A c \in Conns : (Live(c) /\ mem'[c] = "live") =>
        /\ Len(st'[c].segments) < Len(st[c].segments) => Called("ctcp_receive", c)
        /\ sink'[c] # sink[c] => Called("ctcp_receive", c)

C10_QueueOwnership == [][C10_Step]_vars

(* C11: an ACK whose ackno falls strictly inside a queued segment leaves    *)
(* that segment in the retransmission queue: ctcp_receive removes only the  *)
(* segments that end at or before ackno (seqno + payload length <= ackno).  *)
C11_Step ==
    \A c \in Conns :
        (Called("ctcp_receive", c) /\ Live(c) /\ mem'[c] = "live"
            /\ TH_ACK \in call'.seg.flags) =>
            \A i \in DOMAIN st[c].segments :
                LET seg == st[c].segments[i] IN
                    seg.seqno + seg.dlen > call'.seg.ackno =>
                        \E j \in DOMAIN st'[c].segments : st'[c].segments[j] = seg

C11_WholeSegmentAck == [][C11_Step]_vars

\* ctcp_timer is at a segment of a live connection: its next step is the body
\* of the inner loop for that segment
AtNode(c) == tpc = "node" /\ tState = c /\ tNode # 0 /\ Live(c) /\ ~crashed

\* that step has handed the segment seg to conn_send
Retransmitted(seg) ==
    /\ Len(events') > Len(events)
    /\ events'[Len(events) + 1].ev = "conn_send"
    /\ events'[Len(events) + 1].seqno = seg.seqno

(* C12: in a ctcp_timer tick every queued segment of a live connection is   *)
(* judged by its own last transmission: it is retransmitted when that is    *)
(* older than rt_timeout, and it is not retransmitted when it is not.       *)
C12_Step ==
    \A c \in Conns : AtNode(c) =>
        LET seg == st[c].segments[tNode] IN
            (now - seg.sent_at > st[c].rt_timeout) <=> Retransmitted(seg)

C12_PerSegmentTimeout == [][C12_Step]_vars

(* C13: ctcp_timer destroys a connection for retry exhaustion only when one *)
(* segment then in its retransmission queue has itself been retransmitted   *)
(* MAX_NUM_XMITS times; retransmissions of other segments do not count.     *)
C13_Step ==
    \A c \in Conns :
        (AtNode(c) /\ mem'[c] = "freed") =>
            \E i \in DOMAIN st'[c].segments :
                st'[c].segments[i].xmits >= MAX_NUM_XMITS

C13_PerSegmentRetryLimit == [][C13_Step]_vars

(* C14: within one ctcp_timer tick the sweeper does nothing more with a     *)
(* connection it has destroyed: every step it takes while it stands on a    *)
(* connection (the loop tests and reads of lines 178-194, a ctcp_destroy)   *)
(* finds that connection live, and the tick never ends in an invalid        *)
(* access.                                                                  *)
C14_Step ==
    (tpc # "idle" /\ tState # NULL) =>
        /\ mem[tState] = "live"
        /\ ~crashed'

C14_NoTouchAfterDestroy == [][C14_Step]_vars

\* the segments the handler just run has handed to conn_send
SendsOf(evs) == SelectSeq(evs, LAMBDA e : e.ev = "conn_send")

(* C15: for every well-formed segment with payload given to ctcp_receive,   *)
(* in order or not, exactly one ACK is sent; its ackno is recv_next as it   *)
(* stands after the segment was processed, and its window is recv_window    *)
(* less the bytes held for reassembly (the code holds none).                *)
C15_Step ==
    \A c \in Conns :
        (Called("ctcp_receive", c) /\ Live(c) /\ WellFormed(call'.seg)
            /\ HasPayload(call'.seg)) =>
            LET acks == SendsOf(events') IN
                /\ Len(acks) = 1
                /\ acks[1].flags = {TH_ACK}
                /\ acks[1].ackno = st'[c].recv_base
                /\ acks[1].window = st'[c].recv_window

C15_CumulativeAck == [][C15_Step]_vars

\* the handler just run has sent a FIN
FinSent(evs) == \E i \in DOMAIN evs : evs[i].ev = "conn_send" /\ TH_FIN \in evs[i].flags

(* C16: at end of input ctcp_read sends exactly one zero-payload FIN at the *)
(* current seqno and advances seqno by 1; a ctcp_read called after that     *)
(* sends nothing more and leaves seqno as it is.                            *)
C16_Step ==
    \A c \in Conns : (Called("ctcp_read", c) /\ Live(c)) =>
        \* the call that meets the end of input
        /\ FinSent(events') =>
            LET fin == events'[Len(events')] IN
                /\ Cardinality({i \in DOMAIN events' : TH_FIN \in events'[i].flags}) = 1
                /\ fin.flags = {TH_FIN} /\ fin.dlen = 0
                /\ fin.seqno = st'[c].seqno - 1
        \* the call that directly follows one that sent the FIN
        /\ (call.op = "ctcp_read" /\ call.conn = c /\ FinSent(events)) =>
                /\ events' = <<>>
                /\ st'[c].seqno = st[c].seqno

C16_SingleFin == [][C16_Step]_vars

(* C17: a FIN given to ctcp_receive destroys the connection only when it is *)
(* in order and the local FIN was sent and acknowledged.  A FIN that is out *)
(* of order, or that arrives while the application has not closed its       *)
(* source or while segments are unacknowledged, leaves the connection live, *)
(* registered, and its retransmission queue as it was.                      *)
C17_Step ==
    \A c \in Conns :
        (Called("ctcp_receive", c) /\ Live(c) /\ WellFormed(call'.seg)
            /\ call'.seg.flags = {TH_FIN}
            /\ \/ call'.seg.seqno # st[c].recv_base
               \/ ~source[c].eof
               \/ st[c].segments # <<>>) =>
            /\ mem'[c] = "live"
            /\ state_list' = state_list
            /\ st'[c].segments = st[c].segments

C17_FinNeedsLocalClose == [][C17_Step]_vars

(* C18: when ctcp_receive is given a segment with the ACK flag and payload, *)
(* the advance of send_base and the pruning of the retransmission queue are *)
(* done before the payload goes to the sink and before the ACK reply is     *)
(* sent.                                                                    *)
C18_Step ==
    \A c \in Conns :
        (Called("ctcp_receive", c) /\ Live(c)
            /\ TH_ACK \in call'.seg.flags /\ HasPayload(call'.seg)) =>
            /\ \A i, j \in DOMAIN events' :
                (events'[i].ev \in {"send_base", "prune"}
                    /\ events'[j].ev \in {"conn_output", "conn_send"}) => i < j
            /\ st'[c].send_base # st[c].send_base =>
                  \E i \in DOMAIN events' :
                      events'[i].ev = "send_base" /\ events'[i].value = st'[c].send_base
            /\ \E j \in DOMAIN events' : events'[j].ev = "conn_output"

C18_AckBeforePayload == [][C18_Step]_vars

\* a segment with ACK and payload has advanced send_base, removed a queued
\* segment, delivered its payload and been acknowledged
C18_Witness ==
    \E c \in Conns :
        /\ call.op = "ctcp_receive" /\ call.conn = c /\ Live(c)
        /\ TH_ACK \in call.seg.flags /\ HasPayload(call.seg)
        /\ Len(events) = 4
        /\ events[2].ev = "prune" /\ events[2].removed >= 1
        /\ events[3].ev = "conn_output"
        /\ st[c].send_base = call.seg.ackno

\* the connections reached from p by following next, at most fuel of them
RECURSIVE Registry(_, _)
Registry(p, fuel) ==
    IF p = NULL \/ fuel = 0 THEN <<>>
    ELSE <<p>> \o Registry(st[p].next, fuel - 1)

(* C19: after any sequence of ctcp_init and ctcp_destroy calls in which no  *)
(* connection is destroyed twice, the list from state_list along next holds *)
(* exactly the connections created and not destroyed, each once, and each   *)
(* connection's prev designates the slot that points to it: state_list for  *)
(* the first, its predecessor's next for the others.                        *)
C19_RegistryShape ==
    LET r == Registry(state_list, NumConns + 1) IN
        /\ \A i, j \in DOMAIN r : i # j => r[i] # r[j]
        /\ {r[i] : i \in DOMAIN r} = {c \in Conns : Live(c)}
        /\ \A i \in DOMAIN r :
              st[r[i]].prev = (IF i = 1 THEN NULL ELSE r[i - 1])

\* three connections were created and the middle one of the list was destroyed
C19_Witness ==
    /\ call.op = "ctcp_destroy" /\ call.conn = 2
    /\ mem = <<"live", "freed", "live">>
    /\ Registry(state_list, NumConns + 1) = <<3, 1>>
====
